---- MODULE Spec2Model ----
(***************************************************************************)
(* The inference-serving core of the speech transcription service, in its  *)
(* two deployments: the Modal ASGI app (ai-server/modal_deploy.py) and the *)
(* standalone uvicorn server (ai-server/server.py).                        *)
(*                                                                         *)
(* Both run every handler as a coroutine of ONE asyncio event loop.  A     *)
(* handler owns the loop from the moment it is scheduled until it reaches  *)
(* an await that suspends it; the only such await of the transcription     *)
(* handler is `await file.read()`.  load_model, sf.read, the feature       *)
(* extraction, generate and batch_decode are plain synchronous calls.      *)
(* The variable `loop` is the coroutine the event loop is executing.       *)
(*                                                                         *)
(* Requests are anonymous: `queued` and `readers` are bags of request      *)
(* records, so that two requests in the same position are not told apart.  *)
(***************************************************************************)
EXTENDS Integers, FiniteSets, Sequences, Bags

VARIABLES
    deployment,    \* "modal" (modal_deploy.py) or "standalone" (server.py)
    phase,         \* "starting" (lifespan not yet run), "running", "dead"
    cuda,          \* what torch.cuda.is_available() answers
    model,         \* ModelCache.model / self.model
    processor,     \* ModelCache.processor / self.processor
    loop,          \* the coroutine the event loop is executing
    queued,        \* requests that arrived and whose handler has not started
    readers,       \* handlers suspended in `await file.read()`
    healthPending, \* GET / requests that arrived and are not yet handled
    loadAttempts,  \* load-counter probe: entries into the loading branch
    loadFailures,  \* loads that raised
    probes,        \* calls of torch.cuda.is_available(), counted up to MaxProbes
    audio,         \* the channel reduction on its own: its input and result
    clients,       \* the clients there are: each has at most one request open
    abandoned,     \* (history) some request was cancelled in `await file.read()`
    twin           \* the two deployments side by side, served the same requests

\* what the steps of the handlers leave alone: the channel reduction on its
\* own, the number of clients, the record of a cancellation, and the two
\* deployments side by side
aux == <<audio, clients, abandoned, twin>>

vars == <<deployment, phase, cuda, model, processor, loop, queued, readers,
          healthPending, loadAttempts, loadFailures, probes, aux>>

----------------------------------------------------------------------------
(* Bounds of the model *)

\* requests (queued or in flight) that exist at the same time
MaxRequests == 3

\* health checks waiting at the same time
MaxHealth == 1

\* model loads that may raise in one process
MaxLoadFailures == 2

\* calls of the accelerator probe that are counted
MaxProbes == 2

\* samples per channel of a decoded payload
MaxSamples == 2

\* channels of a decoded payload
MaxChannels == 2

\* load attempts of one deployment in the side-by-side run
MaxPairLoads == 2

\* requests served in the side-by-side run
MaxPairRequests == 3

----------------------------------------------------------------------------
(* Program constants *)

\* @modal.concurrent(max_inputs=10)
max_inputs == 10

APP_TITLE == "Speech Transcription API"

CUDA_DEVICE == "cuda"

CPU_DEVICE == "cpu"

DTYPE_CUDA == "float16"

DTYPE_CPU == "float32"

\* `model = None`, `processor = None`
None == [id |-> 0, device |-> "none", dtype |-> "none"]

\* an HTTP response: the status code, and of the JSON body which object it is
\* ("health": {message, status}; "text": {text}; "error") with the fields of
\* the health payload
Response(code, body, message, status) ==
    [code |-> code, body |-> body, message |-> message, status |-> status]

NoResponse == Response(0, "none", "", "")

----------------------------------------------------------------------------
(* The event loop *)

\* the locals of the running coroutine: its position, the pair load_model
\* returned to it, the device and dtype it computed, its response
\* (samples: the length of audio_data once the payload is decoded)
Task(who, pc, m, p, t, r) ==
    [who |-> who, pc |-> pc, asr_model |-> m, asr_processor |-> p,
     device |-> "none", dtype |-> "none", samples |-> 0, timedOut |-> t,
     response |-> r]

\* no coroutine is running: the loop is free to schedule one
Idle == Task("none", "none", None, None, FALSE, NoResponse)

LoopFree == loop = Idle

\* an exception that leaves a request handler: FastAPI answers 500
InternalServerError == Response(500, "error", "", "")

\* return {"text": transcription}
TranscriptionResponse == Response(200, "text", "", "")

\* (mutant) the health payload reports whether the model is loaded
root_by_readiness ==
    Response(200, "health", APP_TITLE,
             IF model.id = 0 THEN "loading" ELSE "running")

\* async def root(): return {"message": self.APP_TITLE, "status": "running"}
root == Response(200, "health", APP_TITLE, "running")

\* the record of a request suspended in `await file.read()`
Reader(m, p, t) == [asr_model |-> m, asr_processor |-> p, timedOut |-> t]

Queued(t) == [timedOut |-> t]

One(x) == SetToBag({x})

\* transcription requests admitted to the handler and not yet answered
InFlight ==
    BagCardinality(readers) + (IF loop.who = "transcribe" THEN 1 ELSE 0)

\* a load_model call is inside its loading branch
LoadInFlight == loop.pc \in {"processor_from_pretrained", "model_from_pretrained"}

----------------------------------------------------------------------------
(* load_model *)

\* (mutant) the test of the cache is dropped: every call loads
NeedsLoad_always(m) == TRUE

\* (mutant) the test of the cache is inverted: a cold cache is never loaded
NeedsLoad_never(m) == m # None

\* if ModelCache.model is None:
NeedsLoad(m) == m = None

\* device = "cuda" if torch.cuda.is_available() else "cpu"
Device(avail) == IF avail THEN CUDA_DEVICE ELSE CPU_DEVICE

\* dtype = torch.float16 if torch.cuda.is_available() else torch.float32
Dtype(avail) == IF avail THEN DTYPE_CUDA ELSE DTYPE_CPU

\* the probe counter after n more calls of torch.cuda.is_available()
Probed(n) == IF probes + n > MaxProbes THEN MaxProbes ELSE probes + n

\* The capacity the deployment gives the handler: Modal admits an input to
\* the container only below max_inputs; uvicorn schedules every request.
HasCapacity ==
    deployment = "modal" => InFlight < max_inputs

\* load_model() returned: the caller holds the pair and goes on.
\* The lifespan hook yields (startup is complete); the transcription handler
\* reaches `await file.read()` and is suspended.
Returned(who, t, m, p) ==
    IF who = "lifespan"
    THEN /\ phase' = "running"
         /\ readers' = readers
    ELSE /\ phase' = phase
         /\ readers' = readers (+) One(Reader(m, p, t))

\* load_model() raised.  In the lifespan hook the startup fails and the
\* process exits; in a handler the request is answered 500.
Raised(who, t) ==
    IF who = "lifespan"
    THEN /\ phase' = "dead"
         /\ loop' = Idle
    ELSE /\ phase' = phase
         /\ loop' = Task("transcribe", "respond", None, None, t,
                         InternalServerError)

\* self.load_model() as called by `who`: the test of the cache, and either
\* the entry into the loading branch or the return of the cached pair.
load_model(who, t) ==
    IF NeedsLoad(model)
    THEN /\ loop' = [Task(who, "processor_from_pretrained", None, None, t,
                               NoResponse)
                          EXCEPT !.device = Device(cuda), !.dtype = Dtype(cuda)]
         /\ probes' = Probed(2)
         /\ loadAttempts' = loadAttempts + 1
         /\ UNCHANGED <<phase, readers>>
    ELSE /\ loop' = Idle
         /\ probes' = probes
         /\ loadAttempts' = loadAttempts
         /\ Returned(who, t, model, processor)

\* server.py: the lifespan hook calls load_model() before the server accepts
\* requests.
lifespan ==
    /\ deployment = "standalone"
    /\ phase = "starting"
    /\ LoopFree
    /\ load_model("lifespan", FALSE)
    /\ UNCHANGED <<aux, deployment, cuda, model, processor, queued, healthPending,
                   loadFailures>>

\* (mutant) the processor is fetched into a local and not into the cache
processor_from_pretrained_local ==
    /\ loop.pc = "processor_from_pretrained"
    /\ \/ /\ processor' = processor
          /\ loop' = [loop EXCEPT !.pc = "model_from_pretrained"]
          /\ UNCHANGED <<phase, loadFailures>>
       \/ /\ loadFailures < MaxLoadFailures
          /\ loadFailures' = loadFailures + 1
          /\ processor' = processor
          /\ Raised(loop.who, loop.timedOut)
    /\ UNCHANGED <<aux, probes, deployment, cuda, model, queued, readers, healthPending,
                   loadAttempts>>

\* ModelCache.processor = WhisperProcessor.from_pretrained(model_name)
processor_from_pretrained ==
    /\ loop.pc = "processor_from_pretrained"
    /\ \/ /\ processor' = [None EXCEPT !.id = loadAttempts]
          /\ loop' = [loop EXCEPT !.pc = "model_from_pretrained"]
          /\ UNCHANGED <<phase, loadFailures>>
       \/ /\ loadFailures < MaxLoadFailures
          /\ loadFailures' = loadFailures + 1
          /\ processor' = processor
          /\ Raised(loop.who, loop.timedOut)
    /\ UNCHANGED <<aux, probes, deployment, cuda, model, queued, readers, healthPending,
                   loadAttempts>>

\* ModelCache.model = WhisperForConditionalGeneration.from_pretrained(
\*     model_name, dtype=dtype).to(device); return model, processor
model_from_pretrained ==
    /\ loop.pc = "model_from_pretrained"
    /\ \/ /\ model' = [id |-> loadAttempts, device |-> loop.device,
                       dtype |-> loop.dtype]
          /\ loop' = Idle
          /\ Returned(loop.who, loop.timedOut, model', processor)
          /\ UNCHANGED loadFailures
       \/ /\ loadFailures < MaxLoadFailures
          /\ loadFailures' = loadFailures + 1
          /\ model' = model
          /\ readers' = readers
          /\ Raised(loop.who, loop.timedOut)
    /\ UNCHANGED <<aux, probes, deployment, cuda, processor, queued, healthPending,
                   loadAttempts>>

----------------------------------------------------------------------------
(* The decoded payload and its reduction to one channel *)

\* a sample value: the rational num/den
Rat(n, d) == [num |-> n, den |-> d]

\* the sample values of the decoded payloads that are tried
SampleValues == {Rat(0 - 1, 1), Rat(0, 1), Rat(1, 1)}

\* what sf.read returns: a numpy array, one-dimensional (shape (L,)) for a
\* mono file and two-dimensional (shape (L, C), C >= 2) otherwise
Array(shape, data) == [shape |-> shape, data |-> data]

MonoArrays ==
    UNION {{Array(<<L>>, d) : d \in [1..L -> SampleValues]} : L \in 0..MaxSamples}

MultiArrays ==
    UNION {{Array(<<L, C>>, d) : d \in [1..L -> [1..C -> SampleValues]]} :
           L \in 0..MaxSamples, C \in 2..MaxChannels}

\* an array of the given shape, all zeros
Zeros(L, C) ==
    IF C = 1
    THEN Array(<<L>>, [i \in 1..L |-> Rat(0, 1)])
    ELSE Array(<<L, C>>, [i \in 1..L |-> [c \in 1..C |-> Rat(0, 1)]])

RECURSIVE SumNum(_)
\* the sum of a row of samples (whole numbers: den = 1)
SumNum(row) ==
    IF row = <<>> THEN 0 ELSE Head(row).num + SumNum(Tail(row))

\* the mean of one row of a two-dimensional array
mean(row) == Rat(SumNum(row), Len(row))

\* (mutant) the mean is taken over the samples, not over the channels
to_mono_axis0(a) ==
    IF Len(a.shape) > 1
    THEN Array(<<a.shape[2]>>,
               [c \in 1..a.shape[2] |->
                   Rat(SumNum([i \in 1..a.shape[1] |-> a.data[i][c]]),
                       a.shape[1])])
    ELSE a

\* if len(audio_data.shape) > 1: audio_data = np.mean(audio_data, axis=1)
to_mono(a) ==
    IF Len(a.shape) > 1
    THEN Array(<<a.shape[1]>>, [i \in 1..a.shape[1] |-> mean(a.data[i])])
    ELSE a

\* the channel reduction has not run / has run
NoAudio == [pc |-> "none", decoded |-> Zeros(0, 1), audio_data |-> Zeros(0, 1)]

\* the channel reduction on its own, applied to a decoded payload
reduce_channels ==
    /\ audio.pc = "decoded"
    /\ audio' = [audio EXCEPT !.pc = "mono", !.audio_data = to_mono(audio.decoded)]
    /\ UNCHANGED <<clients, abandoned, twin, deployment, phase, cuda, model, processor, loop, queued,
                   readers, healthPending, loadAttempts, loadFailures, probes>>

----------------------------------------------------------------------------
(* POST /transcribe *)

\* a client sends a transcription request
Arrive ==
    /\ phase = "running"
    /\ BagCardinality(queued) + InFlight < clients
    /\ queued' = queued (+) One(Queued(FALSE))
    /\ UNCHANGED <<aux, probes, deployment, phase, cuda, model, processor, loop, readers,
                   healthPending, loadAttempts, loadFailures>>

\* the timeout the caller set for itself elapses while the request waits;
\* no line of either deployment reads a deadline
CallerTimeout ==
    /\ phase = "running"
    /\ BagIn(Queued(FALSE), queued)
    /\ queued' = (queued (-) One(Queued(FALSE))) (+) One(Queued(TRUE))
    /\ UNCHANGED <<aux, probes, deployment, phase, cuda, model, processor, loop, readers,
                   healthPending, loadAttempts, loadFailures>>

\* the handler of a waiting request is scheduled:
\*     asr_model, asr_processor = load_model()
\*     audio_bytes = await file.read()
transcribe ==
    /\ phase = "running"
    /\ LoopFree
    /\ HasCapacity
    /\ \E q \in BagToSet(queued) :
          /\ queued' = queued (-) One(q)
          /\ load_model("transcribe", q.timedOut)
    /\ UNCHANGED <<aux, deployment, cuda, model, processor, healthPending,
                   loadFailures>>

\* file.read() completes and the handler is resumed:
\*     audio_data, sample_rate = sf.read(io.BytesIO(audio_bytes))
\*     if len(audio_data.shape) > 1: audio_data = np.mean(audio_data, axis=1)
\*     device = ...; dtype = ...
sf_read ==
    /\ phase = "running"
    /\ LoopFree
    /\ \E r \in BagToSet(readers) :
          /\ readers' = readers (-) One(r)
          /\ \/ /\ \E L \in 0..MaxSamples, C \in 1..MaxChannels :
                      loop' = [Task("transcribe", "asr_processor", r.asr_model,
                                    r.asr_processor, r.timedOut, NoResponse)
                               EXCEPT !.samples = to_mono(Zeros(L, C)).shape[1],
                                      !.device = Device(cuda),
                                      !.dtype = Dtype(cuda)]
                /\ probes' = Probed(2)
             \/ /\ loop' = Task("transcribe", "respond", r.asr_model,
                                r.asr_processor, r.timedOut, InternalServerError)
                /\ probes' = probes
    /\ UNCHANGED <<aux, deployment, phase, cuda, model, processor, queued,
                   healthPending, loadAttempts, loadFailures>>

\* (mutant) a step that raises answers with the text there is so far
Step_partial(at, next) ==
    /\ loop.who = "transcribe"
    /\ loop.pc = at
    /\ \/ loop' = [loop EXCEPT !.pc = next]
       \/ loop' = [loop EXCEPT !.pc = "respond", !.response = TranscriptionResponse]
    /\ UNCHANGED <<aux, probes, deployment, phase, cuda, model, processor, queued, readers,
                   healthPending, loadAttempts, loadFailures>>

\* a synchronous step of the handler: it moves on to `next`, or raises
Step(at, next) ==
    /\ loop.who = "transcribe"
    /\ loop.pc = at
    /\ \/ loop' = [loop EXCEPT !.pc = next]
       \/ loop' = [loop EXCEPT !.pc = "respond", !.response = InternalServerError]
    /\ UNCHANGED <<aux, probes, deployment, phase, cuda, model, processor, queued, readers,
                   healthPending, loadAttempts, loadFailures>>

\* inputs = asr_processor(audio_data, ...); inputs.to(device); .half()
asr_processor == Step("asr_processor", "generate")

\* predicted_ids = asr_model.generate(...)
generate == Step("generate", "batch_decode")

\* transcription = asr_processor.batch_decode(...)[0]; return {"text": ...}
batch_decode ==
    /\ loop.who = "transcribe"
    /\ loop.pc = "batch_decode"
    /\ \/ loop' = [loop EXCEPT !.pc = "respond", !.response = TranscriptionResponse]
       \/ loop' = [loop EXCEPT !.pc = "respond", !.response = InternalServerError]
    /\ UNCHANGED <<aux, probes, deployment, phase, cuda, model, processor, queued, readers,
                   healthPending, loadAttempts, loadFailures>>

\* the response is handed to the server and the coroutine ends
respond ==
    /\ loop.pc = "respond"
    /\ loop' = Idle
    /\ UNCHANGED <<aux, probes, deployment, phase, cuda, model, processor, queued, readers,
                   healthPending, loadAttempts, loadFailures>>

\* (mutant) the cancelled handler drops the cached model on its way out
cancel_unloads ==
    /\ phase = "running"
    /\ LoopFree
    /\ \E r \in BagToSet(readers) : readers' = readers (-) One(r)
    /\ model' = None
    /\ abandoned' = TRUE
    /\ UNCHANGED <<audio, clients, twin, probes, deployment, phase, cuda, processor,
                   loop, queued, healthPending, loadAttempts, loadFailures>>

\* the client disconnects and the handler is cancelled where it is suspended,
\* in `await file.read()`: CancelledError is raised there and the coroutine
\* ends.  (The steps after it are synchronous: they cannot be interrupted.)
cancel ==
    /\ phase = "running"
    /\ LoopFree
    /\ \E r \in BagToSet(readers) : readers' = readers (-) One(r)
    /\ abandoned' = TRUE
    /\ UNCHANGED <<audio, clients, twin, probes, deployment, phase, cuda, model,
                   processor, loop, queued, healthPending, loadAttempts,
                   loadFailures>>

----------------------------------------------------------------------------
(* The accelerator *)

\* the answer of torch.cuda.is_available() changes (the accelerator is lost,
\* or comes back); the handlers ask again on every request
AcceleratorChange ==
    /\ phase # "dead"
    /\ cuda' = ~cuda
    /\ UNCHANGED <<aux, probes, deployment, phase, model, processor, loop,
                   queued, readers, healthPending, loadAttempts, loadFailures>>

----------------------------------------------------------------------------
(* GET / *)

\* a client (the orchestrator's probe) sends a health check
HealthArrive ==
    /\ phase = "running"
    /\ healthPending < MaxHealth
    /\ healthPending' = healthPending + 1
    /\ UNCHANGED <<aux, probes, deployment, phase, cuda, model, processor, loop, queued,
                   readers, loadAttempts, loadFailures>>

\* the handler of a waiting health check is scheduled and returns
health ==
    /\ phase = "running"
    /\ LoopFree
    /\ healthPending > 0
    /\ healthPending' = healthPending - 1
    /\ loop' = Task("root", "respond", None, None, FALSE, root)
    /\ UNCHANGED <<aux, probes, deployment, phase, cuda, model, processor, queued, readers,
                   loadAttempts, loadFailures>>

----------------------------------------------------------------------------
(* The two deployments side by side: each request is served to its end, by
   modal_deploy.py and by server.py, with the same payload and the same
   outcome of the k-th load attempt in both *)

\* how a load attempt ends
LoadOutcomes == {"loaded", "processor_raises", "model_raises"}

\* one deployment: its process, its cache, its load attempts and the
\* response to the last request
Deployed(ph) ==
    [phase |-> ph, model |-> None, processor |-> None, loads |-> 0,
     response |-> NoResponse]

NoTwin ==
    [started |-> FALSE, served |-> 0, transcribed |-> FALSE,
     outcome |-> [k \in 1..MaxPairLoads |-> "loaded"],
     modal |-> Deployed("none"), standalone |-> Deployed("none")]

\* load_model() run to its end in deployment state st: the state after it
\* and whether it raised
PairLoad(st, out) ==
    IF NeedsLoad(st.model)
    THEN LET k == st.loads + 1
             p == [None EXCEPT !.id = k]
             m == [id |-> k, device |-> Device(cuda), dtype |-> Dtype(cuda)]
         IN  CASE out[k] = "processor_raises" ->
                    [st |-> [st EXCEPT !.loads = k], raised |-> TRUE]
               [] out[k] = "model_raises" ->
                    [st |-> [st EXCEPT !.loads = k, !.processor = p],
                     raised |-> TRUE]
               [] out[k] = "loaded" ->
                    [st |-> [st EXCEPT !.loads = k, !.processor = p, !.model = m],
                     raised |-> FALSE]
    ELSE [st |-> st, raised |-> FALSE]

\* the start of the process: server.py runs load_model() in its lifespan
\* hook and exits if it raises; modal_deploy.py has no startup hook
PairStartup(d, st, out) ==
    IF d = "standalone"
    THEN LET r == PairLoad(st, out)
         IN  [r.st EXCEPT !.phase = IF r.raised THEN "dead" ELSE "running"]
    ELSE [st EXCEPT !.phase = "running"]

\* POST /transcribe served to its end; ok: every call after load_model
\* returns.  A process that exited answers nothing.
PairPost(st, out, ok) ==
    IF st.phase # "running"
    THEN [st EXCEPT !.response = NoResponse]
    ELSE LET r == PairLoad(st, out)
         IN  [r.st EXCEPT !.response = IF r.raised \/ ~ok
                                       THEN InternalServerError
                                       ELSE TranscriptionResponse]

\* GET / served to its end
PairGet(st) ==
    [st EXCEPT !.response = IF st.phase # "running" THEN NoResponse ELSE root]

\* the next load attempt of the deployment, if there is one, has an outcome
CanLoad(st) ==
    (st.phase = "running" /\ NeedsLoad(st.model)) => st.loads < MaxPairLoads

\* both processes start
TwinStartup ==
    /\ ~twin.started
    /\ twin' = [twin EXCEPT
                  !.started = TRUE,
                  !.modal = PairStartup("modal", twin.modal, twin.outcome),
                  !.standalone = PairStartup("standalone", twin.standalone,
                                             twin.outcome)]
    /\ UNCHANGED <<audio, clients, abandoned, deployment, phase, cuda, model,
                   processor, loop, queued, readers, healthPending,
                   loadAttempts, loadFailures, probes>>

\* the same transcription request is sent to both
TwinPost ==
    /\ twin.started
    /\ twin.served < MaxPairRequests
    /\ CanLoad(twin.modal)
    /\ CanLoad(twin.standalone)
    /\ \E ok \in BOOLEAN :
          twin' = [twin EXCEPT
                     !.served = @ + 1,
                     !.transcribed = TRUE,
                     !.modal = PairPost(twin.modal, twin.outcome, ok),
                     !.standalone = PairPost(twin.standalone, twin.outcome, ok)]
    /\ UNCHANGED <<audio, clients, abandoned, deployment, phase, cuda, model,
                   processor, loop, queued, readers, healthPending,
                   loadAttempts, loadFailures, probes>>

\* the same health check is sent to both
TwinGet ==
    /\ twin.started
    /\ twin.served < MaxPairRequests
    /\ twin' = [twin EXCEPT
                  !.served = @ + 1,
                  !.modal = PairGet(twin.modal),
                  !.standalone = PairGet(twin.standalone)]
    /\ UNCHANGED <<audio, clients, abandoned, deployment, phase, cuda, model,
                   processor, loop, queued, readers, healthPending,
                   loadAttempts, loadFailures, probes>>

----------------------------------------------------------------------------

\* a fresh process of either deployment
Fresh ==
    /\ deployment \in {"modal", "standalone"}
    /\ phase = IF deployment = "standalone" THEN "starting" ELSE "running"
    /\ cuda \in BOOLEAN
    /\ model = None
    /\ processor = None
    /\ loop = Idle
    /\ queued = EmptyBag
    /\ readers = EmptyBag
    /\ healthPending = 0
    /\ loadAttempts = 0
    /\ loadFailures = 0
    /\ probes = 0
    /\ audio = NoAudio
    /\ abandoned = FALSE
    /\ twin = NoTwin

Init ==
    /\ Fresh
    /\ clients = MaxRequests

Next ==
    \/ lifespan
    \/ processor_from_pretrained
    \/ model_from_pretrained
    \/ Arrive
    \/ CallerTimeout
    \/ transcribe
    \/ sf_read
    \/ asr_processor
    \/ generate
    \/ batch_decode
    \/ respond
    \/ cancel
    \/ HealthArrive
    \/ health
    \/ AcceleratorChange

Spec == Init /\ [][Next]_vars

\* The same server with one client more than the admission ceiling.
InitGate ==
    /\ Fresh
    /\ clients = max_inputs + 1

SpecGate == InitGate /\ [][Next]_vars

\* The channel reduction on its own: every decoded payload within the
\* bounds, and the reduction applied to it.  The server stands still.
InitMono ==
    /\ deployment = "modal"
    /\ phase = "running"
    /\ cuda = FALSE
    /\ model = None
    /\ processor = None
    /\ loop = Idle
    /\ queued = EmptyBag
    /\ readers = EmptyBag
    /\ healthPending = 0
    /\ loadAttempts = 0
    /\ loadFailures = 0
    /\ probes = 0
    /\ clients = 0
    /\ abandoned = FALSE
    /\ twin = NoTwin
    /\ \/ \E a \in MonoArrays :
             audio = [pc |-> "decoded", decoded |-> a, audio_data |-> a]
       \/ \E a \in MultiArrays :
             audio = [pc |-> "decoded", decoded |-> a, audio_data |-> a]

NextMono == reduce_channels

SpecMono == InitMono /\ [][NextMono]_vars

\* The two deployments side by side: every outcome of the load attempts and
\* of the probe, every sequence of requests within the bounds.
InitPair ==
    /\ deployment = "modal"
    /\ phase = "running"
    /\ cuda \in BOOLEAN
    /\ model = None
    /\ processor = None
    /\ loop = Idle
    /\ queued = EmptyBag
    /\ readers = EmptyBag
    /\ healthPending = 0
    /\ loadAttempts = 0
    /\ loadFailures = 0
    /\ probes = 0
    /\ audio = NoAudio
    /\ clients = 0
    /\ abandoned = FALSE
    /\ \E out \in [1..MaxPairLoads -> LoadOutcomes] :
          twin = [NoTwin EXCEPT !.outcome = out,
                                !.modal = Deployed("starting"),
                                !.standalone = Deployed("starting")]

NextPair ==
    \/ TwinStartup
    \/ TwinPost
    \/ TwinGet

SpecPair == InitPair /\ [][NextPair]_vars

----------------------------------------------------------------------------
(* Properties *)

\* loads that ran to the end: each one made a model handle
LoadsCompleted ==
    loadAttempts - loadFailures - (IF LoadInFlight THEN 1 ELSE 0)

\* the handler positions that follow the return of load_model
AfterLoad == {"asr_processor", "generate", "batch_decode"}

\* the (model, processor) pairs load_model has returned to the handlers that
\* are still alive
HeldPairs ==
    {<<r.asr_model, r.asr_processor>> : r \in BagToSet(readers)}
    \cup (IF loop.who = "transcribe" /\ loop.pc \in AfterLoad
          THEN {<<loop.asr_model, loop.asr_processor>>}
          ELSE {})

C2_Step ==
    model # None =>
        /\ model' = model
        /\ processor' = processor
        /\ loadAttempts' = loadAttempts
        /\ \A pair \in HeldPairs' : pair = <<model, processor>>

\* C2: once a successful load has set the cached model, no step (startup,
\* a transcription that succeeds or fails, a health check) reassigns the model
\* or the processor or resets them, no later load_model call loads again, and
\* every pair a later call returns is the cached one.
C2_HandleNeverReplaced == [][C2_Step]_vars

\* C2 witness: with the model loaded, a transcription has failed and another
\* handler still holds the pair.
C2_Witness ==
    /\ model # None
    /\ loop.who = "transcribe"
    /\ loop.pc = "respond"
    /\ loop.response = InternalServerError
    /\ readers # EmptyBag

C3_Gate ==
    (loop.who = "transcribe" /\ loop.pc \in AfterLoad) =>
        /\ model # None
        /\ processor # None
        /\ loop.asr_model = model
        /\ loop.asr_processor = processor

C3_Wait ==
    LoadInFlight =>
        /\ loadAttempts' = loadAttempts
        /\ BagCardinality(queued') >= BagCardinality(queued)
        /\ InFlight' <= InFlight

C4_AdmissionCeiling == InFlight <= max_inputs

C5_Step == InFlight >= max_inputs => InFlight' <= InFlight

\* C5: a request that arrives while the instance is at its admission ceiling
\* is queued: no handler is started until a request in flight is answered.
C5_QueuedAtCeiling == [][C5_Step]_vars

\* C6: a request whose caller's timeout elapsed while it was queued is
\* answered Overloaded (503), never served.
C6_TimeoutOverloaded ==
    (loop.who = "transcribe" /\ loop.pc = "respond" /\ loop.timedOut) =>
        (loop.response.code = 503 /\ loop.response.body = "error")

\* C7: after a load attempt has failed, no load_model call of the process
\* starts another one: the failed attempt stays the only one.
C7_FailedLoadTerminal == loadFailures >= 1 => loadAttempts = 1

\* C8: the health endpoint does not answer "running" while the model is not
\* loaded (unloaded, loading, or failed to load).
C8_NotReadySignal ==
    (loop.who = "root" /\ loop.pc = "respond" /\ model = None) =>
        loop.response.status # "running"

C9_Step ==
    (loop'.who = "root" /\ loop.who # "root") =>
        /\ loop'.response = Response(200, "health", APP_TITLE, "running")
        /\ UNCHANGED <<model, processor, loadAttempts, loadFailures, phase,
                       queued, readers>>

\* C9: whenever the health check is handled, in any state of the cache and
\* with transcription requests queued or suspended, it answers 200 with
\* {message, status: "running"}, leaves the model cache and every request as
\* they were, and starts no load.
C9_HealthNoSideEffect == [][C9_Step]_vars

\* C9 witness: a health check answered between the steps of transcription
\* requests.
C9_Witness ==
    /\ loop.who = "root"
    /\ loop.response.status = "running"
    /\ readers # EmptyBag
    /\ queued # EmptyBag

\* C10: while a request is in its generation step, a waiting health check
\* can be handled and a completed payload read can resume its handler.
C10_GenerationNonBlocking ==
    (loop.who = "transcribe" /\ loop.pc = "generate") =>
        /\ healthPending > 0 => ENABLED health
        /\ readers # EmptyBag => ENABLED sf_read

\* the channels of a decoded array
Channels(a) == IF Len(a.shape) > 1 THEN a.shape[2] ELSE 1

\* C14: for a decoded payload of C >= 1 channels and L samples per channel,
\* the buffer handed on is one-dimensional of length exactly L; for C > 1
\* its i-th sample is the sum of the C channel values at i divided by C; a
\* mono payload is handed on as it is.
C14_MonoReduction ==
    audio.pc = "mono" =>
        LET a == audio.decoded
            b == audio.audio_data
            L == a.shape[1]
            C == Channels(a)
        IN  /\ Len(b.shape) = 1
            /\ b.shape[1] = L
            /\ Len(b.data) = L
            /\ C = 1 => b = a
            /\ C > 1 =>
                  \A i \in 1..L :
                     /\ b.data[i].den > 0
                     /\ b.data[i].num * C = SumNum(a.data[i]) * b.data[i].den

\* C14 witness: a two-channel payload of two samples whose channels differ
\* has been reduced.
C14_Witness ==
    /\ audio.pc = "mono"
    /\ audio.decoded.shape = <<2, 2>>
    /\ audio.decoded.data[1][1] # audio.decoded.data[1][2]
    /\ audio.decoded.data[2][1] # audio.decoded.data[1][1]

\* C11: generation is never invoked for a request whose payload decoded to
\* zero samples.
C11_EmptyAudioNoGeneration ==
    (loop.who = "transcribe" /\ loop.pc = "generate") => loop.samples > 0

\* C12: the accelerator probe is executed at most once in the life of the
\* process.
C12_ProbeOnce == probes <= 1

\* C13: at every generation call the features are on the device and in the
\* precision the model handle was loaded with.
C13_FeaturesAligned ==
    (loop.who = "transcribe" /\ loop.pc = "generate") =>
        /\ loop.device = loop.asr_model.device
        /\ loop.dtype = loop.asr_model.dtype

\* the responses a transcription request can end in
Outcomes == {TranscriptionResponse, InternalServerError}

\* a handler of a transcription request holds a response exactly when it has
\* ended, and then it is one of the two outcomes
C15_Outcome ==
    loop.who = "transcribe" =>
        /\ loop.pc = "respond" => loop.response \in Outcomes
        /\ loop.pc # "respond" => loop.response = NoResponse

\* a step of the server abandons a suspended request
Abandoned ==
    /\ loop = Idle
    /\ loop' = Idle
    /\ BagCardinality(readers') < BagCardinality(readers)

\* the text is produced by the last step only, after every step before it
\* succeeded; a request leaves the handler with its response, or abandoned
C15_Step ==
    /\ (loop'.response = TranscriptionResponse /\ loop.response # TranscriptionResponse)
          => (loop.who = "transcribe" /\ loop.pc = "batch_decode")
    /\ InFlight' < InFlight
          => \/ loop.who = "transcribe" /\ loop.pc = "respond" /\ loop.response \in Outcomes
             \/ Abandoned

C16_Step ==
    /\ Abandoned =>
          /\ model' = model
          /\ processor' = processor
          /\ queued' = queued
          /\ healthPending' = healthPending
          /\ phase' = phase
          /\ loadAttempts' = loadAttempts
          /\ BagCardinality(readers') = BagCardinality(readers) - 1
          /\ \A r \in BagToSet(readers') : BagIn(r, readers)
    /\ (model' # model \/ processor' # processor) => (LoadInFlight /\ model = None)

\* after an abandonment (as before it) the free loop can resume any
\* suspended request and start any waiting one, and a suspended request that
\* holds a model holds the cached one
C16_OthersProceed ==
    abandoned =>
        /\ (phase = "running" /\ LoopFree /\ readers # EmptyBag) => ENABLED sf_read
        /\ (phase = "running" /\ LoopFree /\ queued # EmptyBag /\ HasCapacity)
              => ENABLED transcribe
        /\ \A r \in BagToSet(readers) : r.asr_model \in {None, model}

\* C16: abandoning a request where its handler is suspended leaves the model
\* cache as it was and the other requests able to complete; a request writes
\* no shared state but the one-time load.
C16_AbandonFrame == []C16_OthersProceed /\ [][C16_Step]_vars

\* C16 witness: a request was abandoned while the model was cached and
\* another request is suspended, holding the cached model.
C16_Witness ==
    /\ abandoned
    /\ model # None
    /\ \E r \in BagToSet(readers) : r.asr_model = model

\* the pairs load_model has returned and that are still held
C17_Pairs ==
    \A r \in BagToSet(readers) : r.asr_model # None => r.asr_processor # None

\* a load that raises leaves the model unset
C17_Step == loadFailures' > loadFailures => model' = None

\* C17: a set cached model implies a set cached processor, in the cache and
\* in every pair load_model returned, and a load that failed part-way leaves
\* the model unset.
C17_ModelImpliesProcessor ==
    /\ [](model # None => processor # None)
    /\ []C17_Pairs
    /\ [][C17_Step]_vars

\* C17 witness: a load failed after the processor was assigned; the model is
\* unset.
C17_Witness ==
    /\ ~LoadInFlight
    /\ loadFailures >= 1
    /\ processor # None
    /\ model = None

\* the side-by-side run agrees as long as no load attempt raised
PairAgreesWhenLoaded ==
    (twin.served > 0 /\ \A k \in 1..MaxPairLoads : twin.outcome[k] = "loaded") =>
        /\ twin.modal.response = twin.standalone.response
        /\ twin.transcribed => twin.modal.loads = twin.standalone.loads

\* C18: served the same requests with the same payloads and the same load
\* and probe outcomes, the two deployments give the same response to each
\* request and, once a transcription request was served, have loaded the
\* model the same number of times.
C18_DeploymentsEquivalent ==
    twin.served > 0 =>
        /\ twin.modal.response = twin.standalone.response
        /\ twin.transcribed => twin.modal.loads = twin.standalone.loads

====
